---- MODULE Spec2Model ----
(***************************************************************************)
(* Model of the lazy, type-changing pipeline of src/Pipeline_Hard.cpp:     *)
(* the step hierarchy (InitialStep, TransformStep, TerminalStep,           *)
(* SequentialStep), the result holder, the type recovery done with         *)
(* dynamic_cast, and the two handle classes Pipeline<T> / Pipeline<void>.  *)
(*                                                                         *)
(* The heap is a sequence of arenas, `chains`, one per chain begun: an     *)
(* arena holds the step objects of the chain (`steps`: a step's address is *)
(* its index in the arena, Null is the null pointer), the Pipeline objects *)
(* made for it that the caller holds (`handles`), and the chain's          *)
(* observable output (`log`: the invocations of its step functions, in     *)
(* the order in which they happen).  Every public operation is one action; *)
(* the recursive virtual call execute() is the operator StepExecute.       *)
(***************************************************************************)
EXTENDS Integers, Sequences, FiniteSets, TLC

VARIABLES chains, crashed, thrown, slots, free_stack, free_top,
          data_, container, result, mask_call

vars == <<chains, crashed, thrown, slots, free_stack, free_top,
          data_, container, result, mask_call>>

\* the state of the pipelines: the arenas and whether the process died.
\* `thrown` is the exception the last call threw to its caller ("none": the
\* call returned).
pipelines == <<chains, crashed>>

\* the state of the MemReserver object of src/MemResever.cpp
reserver == <<slots, free_stack, free_top>>

\* the state of a caller of Mask<N> of src/Mask.cpp: the mask object's
\* array data_ (empty: no mask constructed yet), the caller's container, the
\* container the last transform / slice_and_transform returned, and the last
\* call made on the mask with the container it was given
masks == <<data_, container, result, mask_call>>

\* ------------------------------------------------------------------ bounds
MaxSteps == 4
MaxFails == 1
MaxChains == 1
MaxOrphans == 1
\* the Pipeline objects the caller holds are fewer than the step objects
\* allocated plus MaxMoved: the bound on the handles the move constructor adds
MaxMoved == 1
\* the longest mask and the longest container
MaxMask == 3
MaxLen == 4
MaxVal == 700
\* the number of slots of the pool, the template parameter of MemReserver
N == 3

\* ------------------------------------------------------------------ values
Null == 0

IntVal(n) == [t |-> "int", n |-> n, s |-> <<>>]
SizeVal(n) == [t |-> "size_t", n |-> n, s |-> <<>>]
StrVal(s) == [t |-> "string", n |-> 0, s |-> s]
\* a default-initialised `T result;` / `In input_value;`
NoVal == [t |-> "none", n |-> 0, s |-> <<>>]

Digits == <<"0", "1", "2", "3", "4", "5", "6", "7", "8", "9">>

RECURSIVE to_string(_)
to_string(n) ==
    IF n < 10 THEN <<Digits[n + 1]>>
    ELSE to_string(n \div 10) \o <<Digits[(n % 10) + 1]>>

SizeIs == <<"S", "i", "z", "e", " ", "i", "s", ":", " ">>

\* the seeds the callers of make_pipeline use
SeedValues == {IntVal(5), StrVal(<<"H", "e", "l", "l", "o">>)}

\* ------------------------------------------------------- step functions
UnaryFns == {"add10", "sq", "size", "toStr", "print"}
ZeroArgFns == {"second"}

\* decltype(func(std::declval<InputType>())), "invalid" when the call does
\* not compile
FunctionResult(f, T) ==
    CASE f = "add10" /\ T \in {"int", "size_t"} -> T
      [] f = "sq" /\ T \in {"int", "size_t"} -> T
      [] f = "size" /\ T = "string" -> "size_t"
      [] f = "toStr" /\ T \in {"int", "size_t"} -> "string"
      [] f = "print" /\ T \in {"int", "size_t", "string"} -> "void"
      [] OTHER -> "invalid"

\* the value a value-returning step function computes
Apply(f, v) ==
    CASE f = "add10" -> [v EXCEPT !.n = v.n + 10]
      [] f = "sq" -> [v EXCEPT !.n = v.n * v.n]
      [] f = "size" -> SizeVal(Len(v.s))
      [] f = "toStr" -> StrVal(SizeIs \o to_string(v.n))
      [] OTHER -> NoVal

\* ------------------------------------------------------------ the steps
InitialStep(val) ==
    [kind |-> "Initial", inT |-> "none", outT |-> val.t, value |-> val,
     previous |-> Null, func |-> "none", fails |-> 0,
     executed |-> FALSE, has_result |-> FALSE, result |-> NoVal, alive |-> TRUE]

TransformStep(prev, f, In, Out, k) ==
    [kind |-> "Transform", inT |-> In, outT |-> Out, value |-> NoVal,
     previous |-> prev, func |-> f, fails |-> k,
     executed |-> FALSE, has_result |-> FALSE, result |-> NoVal, alive |-> TRUE]

TerminalStep(prev, f, In, k) ==
    [kind |-> "Terminal", inT |-> In, outT |-> "void", value |-> NoVal,
     previous |-> prev, func |-> f, fails |-> k,
     executed |-> FALSE, has_result |-> FALSE, result |-> NoVal, alive |-> TRUE]

SequentialStep(p, f, k) ==
    [kind |-> "Sequential", inT |-> "none", outT |-> "void", value |-> NoVal,
     previous |-> p, func |-> f, fails |-> k,
     executed |-> FALSE, has_result |-> FALSE, result |-> NoVal, alive |-> TRUE]

\* setResult that stores the value and leaves has_result as it is
setResultNoFlag(s, res) == [s EXCEPT !.result = res]

\* ResultHolder<T>::setResult
setResult(s, res) == [s EXCEPT !.result = res, !.has_result = TRUE]

\* ResultHolder<T>::getResult: the value, or the error thrown
getResult(s) ==
    IF ~s.has_result THEN [err |-> "Result not set", val |-> NoVal]
    ELSE [err |-> "none", val |-> s.result]

\* a type recovery whose casts do not look at the type argument
RecoverInputAnyType(ss, prev, In) ==
    IF prev # Null /\ ss[prev].kind = "Initial"
    THEN [err |-> "none", val |-> ss[prev].value]
    ELSE IF prev # Null /\ ss[prev].kind = "Transform"
    THEN getResult(ss[prev])
    ELSE [err |-> "Cannot get value from previous step", val |-> NoVal]

\* the dynamic_cast chain of TransformStep::execute / TerminalStep::execute
\* on `previous`, for the input type In
RecoverInput(ss, prev, In) ==
    IF prev # Null /\ ss[prev].kind = "Initial" /\ ss[prev].outT = In
    THEN [err |-> "none", val |-> ss[prev].value]
    ELSE IF prev # Null /\ ss[prev].kind = "Transform" /\ ss[prev].outT = In
    THEN getResult(ss[prev])
    ELSE [err |-> "Cannot get value from previous step", val |-> NoVal]

\* a call that leaves the step marked as run when the function throws
InvokeFuncMarksRan(st, id, arg) ==
    LET s == st.steps[id] IN
    IF s.fails > 0
    THEN [st EXCEPT !.steps[id].fails = s.fails - 1,
                    !.steps[id].executed = TRUE,
                    !.log = Append(st.log, [step |-> id, arg |-> arg, ok |-> FALSE]),
                    !.err = "func"]
    ELSE [st EXCEPT !.log = Append(st.log, [step |-> id, arg |-> arg, ok |-> TRUE])]

\* a call of the std::function of step id with argument arg: it is written
\* to the log, and it throws while the step's budget of failures lasts
InvokeFunc(st, id, arg) ==
    LET s == st.steps[id] IN
    IF s.fails > 0
    THEN [st EXCEPT !.steps[id].fails = s.fails - 1,
                    !.log = Append(st.log, [step |-> id, arg |-> arg, ok |-> FALSE]),
                    !.err = "func"]
    ELSE [st EXCEPT !.log = Append(st.log, [step |-> id, arg |-> arg, ok |-> TRUE])]

\* TransformStep::execute with the result slot left as it is
TransformBodyKeepsInput(st, id, arg) ==
    LET st2 == InvokeFunc(st, id, arg) IN
    IF st2.err # "none" THEN st2
    ELSE [st2 EXCEPT !.steps[id] =
              [setResult(st2.steps[id], arg) EXCEPT !.executed = TRUE]]

\* the part of TransformStep::execute after the input is recovered:
\* this->setResult(func(input_value)); executed = true;
TransformBody(st, id, arg) ==
    LET st2 == InvokeFunc(st, id, arg) IN
    IF st2.err # "none" THEN st2
    ELSE [st2 EXCEPT !.steps[id] =
              [setResult(st2.steps[id], Apply(st2.steps[id].func, arg))
                  EXCEPT !.executed = TRUE]]

\* TerminalStep::execute without `executed = true`
TerminalBodyNoFlag(st, id, arg) == InvokeFunc(st, id, arg)

\* the part of TerminalStep::execute after the input is recovered:
\* func(input_value); executed = true;
TerminalBody(st, id, arg) ==
    LET st2 == InvokeFunc(st, id, arg) IN
    IF st2.err # "none" THEN st2
    ELSE [st2 EXCEPT !.steps[id].executed = TRUE]

\* the part of SequentialStep::execute after prev->execute():
\* action(); executed = true;
SequentialBody(st, id) ==
    LET st2 == InvokeFunc(st, id, NoVal) IN
    IF st2.err # "none" THEN st2
    ELSE [st2 EXCEPT !.steps[id].executed = TRUE]

\* the call execute() is entered on the step at id: `asked` lists the steps
\* on which execute() was called, in the order of the calls
Enter(st, id) == [st EXCEPT !.asked = Append(st.asked, id)]

RECURSIVE StepExecute(_, _, _)

\* execute() with the step's own work done before its predecessor's
StepExecuteOwnWorkFirst(st, id, ub) ==
    IF id = Null
    THEN IF ub = "crash" THEN [st EXCEPT !.err = "crash"] ELSE st
    ELSE LET s == st.steps[id] IN
    IF s.kind = "Initial" THEN [Enter(st, id) EXCEPT !.steps[id].executed = TRUE]
    ELSE IF s.executed THEN Enter(st, id)
    ELSE IF s.kind = "Sequential"
    THEN LET st1 == SequentialBody(Enter(st, id), id) IN
         IF st1.err # "none" THEN st1 ELSE StepExecute(st1, s.previous, ub)
    ELSE LET st1 == StepExecute(Enter(st, id), s.previous, ub) IN
    IF st1.err # "none" THEN st1
    ELSE LET rec == RecoverInput(st1.steps, s.previous, s.inT) IN
         IF rec.err # "none" THEN [st1 EXCEPT !.err = rec.err]
         ELSE IF s.kind = "Transform" THEN TransformBody(st1, id, rec.val)
         ELSE TerminalBody(st1, id, rec.val)

\* execute() that does not call previous->execute()
StepExecuteSkipsPrevious(st, id, ub) ==
    IF id = Null
    THEN IF ub = "crash" THEN [st EXCEPT !.err = "crash"] ELSE st
    ELSE LET s == st.steps[id] IN
    IF s.kind = "Initial" THEN [Enter(st, id) EXCEPT !.steps[id].executed = TRUE]
    ELSE IF s.executed THEN Enter(st, id)
    ELSE LET st1 == Enter(st, id) IN
    IF s.kind = "Sequential" THEN SequentialBody(st1, id)
    ELSE LET rec == RecoverInput(st1.steps, s.previous, s.inT) IN
         IF rec.err # "none" THEN [st1 EXCEPT !.err = rec.err]
         ELSE IF s.kind = "Transform" THEN TransformBody(st1, id, rec.val)
         ELSE TerminalBody(st1, id, rec.val)

\* execute() that calls previous->execute() before it tests `executed`
StepExecuteAsksFirst(st, id, ub) ==
    IF id = Null
    THEN IF ub = "crash" THEN [st EXCEPT !.err = "crash"] ELSE st
    ELSE LET s == st.steps[id] IN
    IF s.kind = "Initial" THEN [Enter(st, id) EXCEPT !.steps[id].executed = TRUE]
    ELSE LET st1 == StepExecute(Enter(st, id), s.previous, ub) IN
    IF st1.err # "none" THEN st1
    ELSE IF s.executed THEN st1
    ELSE IF s.kind = "Sequential" THEN SequentialBody(st1, id)
    ELSE LET rec == RecoverInput(st1.steps, s.previous, s.inT) IN
         IF rec.err # "none" THEN [st1 EXCEPT !.err = rec.err]
         ELSE IF s.kind = "Transform" THEN TransformBody(st1, id, rec.val)
         ELSE TerminalBody(st1, id, rec.val)

\* execute() that goes on with its own work after its predecessor threw
StepExecuteSwallowsError(st, id, ub) ==
    IF id = Null
    THEN IF ub = "crash" THEN [st EXCEPT !.err = "crash"] ELSE st
    ELSE LET s == st.steps[id] IN
    IF s.kind = "Initial" THEN [Enter(st, id) EXCEPT !.steps[id].executed = TRUE]
    ELSE IF s.executed THEN Enter(st, id)
    ELSE LET st1 == StepExecute(Enter(st, id), s.previous, ub) IN
    IF st1.err = "crash" THEN st1
    ELSE IF s.kind = "Sequential" THEN SequentialBody(st1, id)
    ELSE LET rec == RecoverInput(st1.steps, s.previous, s.inT) IN
         IF rec.err # "none" THEN [st1 EXCEPT !.err = rec.err]
         ELSE IF s.kind = "Transform" THEN TransformBody(st1, id, rec.val)
         ELSE TerminalBody(st1, id, rec.val)

\* the virtual call step->execute() on the step at address id; st is
\* [steps, log, err, asked]; ub is the outcome of a call through a null pointer:
\* "crash" (the process dies) or "return" (the call does nothing)
StepExecute(st, id, ub) ==
    IF id = Null
    THEN IF ub = "crash" THEN [st EXCEPT !.err = "crash"] ELSE st
    ELSE LET s == st.steps[id] IN
    IF s.kind = "Initial" THEN [Enter(st, id) EXCEPT !.steps[id].executed = TRUE]
    ELSE IF s.executed THEN Enter(st, id)
    ELSE LET st1 == StepExecute(Enter(st, id), s.previous, ub) IN
    IF st1.err # "none" THEN st1
    ELSE IF s.kind = "Sequential" THEN SequentialBody(st1, id)
    ELSE LET rec == RecoverInput(st1.steps, s.previous, s.inT) IN
         IF rec.err # "none" THEN [st1 EXCEPT !.err = rec.err]
         ELSE IF s.kind = "Transform" THEN TransformBody(st1, id, rec.val)
         ELSE TerminalBody(st1, id, rec.val)

\* ~unique_ptr<PipelineStepBase>: the step at id and all it owns die
RECURSIVE Destroy(_, _)
Destroy(ss, id) ==
    IF id = Null THEN ss
    ELSE Destroy([ss EXCEPT ![id].alive = FALSE], ss[id].previous)

\* the value the chain ending at id computes, by plain composition of the
\* functions from the seed on (NoVal when it computes none)
RECURSIVE ChainValue(_, _)
ChainValue(ss, id) ==
    IF id = Null THEN NoVal
    ELSE IF ss[id].kind = "Initial" THEN ss[id].value
    ELSE IF ss[id].kind = "Transform"
    THEN LET v == ChainValue(ss, ss[id].previous) IN
         IF v.t = ss[id].inT THEN Apply(ss[id].func, v) ELSE NoVal
    ELSE NoVal

\* ---------------------------------------------------------- the handles
EmptyChain == [steps |-> <<>>, handles |-> <<>>, log |-> <<>>]

\* the arena an operation leaves, without the error it reports
Arena(r) == [steps |-> r.steps, handles |-> r.handles, log |-> r.log]

\* a constructor that ignores `immediate` and never executes
PipelineCtorNeverExecutes(w, s, immediate, T, ub) ==
    [steps |-> w.steps,
     handles |-> Append(w.handles,
                        [step |-> s, immediate_execution |-> immediate, type |-> T]),
     log |-> w.log, err |-> "none"]

\* a constructor that executes whatever `immediate` says
PipelineCtorAlwaysExecutes(w, s, immediate, T, ub) ==
    LET h == [step |-> s, immediate_execution |-> immediate, type |-> T]
        st == StepExecute([steps |-> w.steps, log |-> w.log, err |-> "none",
                           asked |-> <<>>], s, ub)
    IN IF st.err = "none"
       THEN [steps |-> st.steps, handles |-> Append(w.handles, h),
             log |-> st.log, err |-> "none"]
       ELSE IF st.err = "crash"
       THEN [steps |-> w.steps, handles |-> w.handles, log |-> w.log,
             err |-> "crash"]
       ELSE [steps |-> Destroy(st.steps, s), handles |-> w.handles,
             log |-> st.log, err |-> st.err]

\* Pipeline<T>::Pipeline / Pipeline<void>::Pipeline on the arena w =
\* [steps, handles, log]: the new handle is added unless the constructor
\* throws, in which case its member `step` is destroyed
PipelineCtor(w, s, immediate, T, ub) ==
    LET h == [step |-> s, immediate_execution |-> immediate, type |-> T] IN
    IF ~immediate
    THEN [steps |-> w.steps, handles |-> Append(w.handles, h), log |-> w.log,
          err |-> "none"]
    ELSE LET st == StepExecute([steps |-> w.steps, log |-> w.log, err |-> "none",
                                asked |-> <<>>], s, ub) IN
         IF st.err = "none"
         THEN [steps |-> st.steps, handles |-> Append(w.handles, h),
               log |-> st.log, err |-> "none"]
         ELSE IF st.err = "crash"
         THEN [steps |-> w.steps, handles |-> w.handles, log |-> w.log,
               err |-> "crash"]
         ELSE [steps |-> Destroy(st.steps, s), handles |-> w.handles,
               log |-> st.log, err |-> st.err]

\* make_pipeline(value, immediate), in a fresh arena
make_pipeline(value, immediate) ==
    PipelineCtor([EmptyChain EXCEPT !.steps = <<InitialStep(value)>>],
                 1, immediate, value.t, "crash")

\* std::move(step) on handle h of arena w: the arena the new step is
\* allocated in, with the source handle left without a step.  A new step
\* built over a null pointer begins an arena of its own.
MoveStep(w, h) ==
    IF w.handles[h].step = Null THEN EmptyChain
    ELSE [w EXCEPT !.handles[h].step = Null]

\* operator| that does not hand immediate_execution on to the new handle
PipeTypedDropsImmediate(w, h, f, k, ub) ==
    LET base == MoveStep(w, h)
        InputType == w.handles[h].type
        Out == FunctionResult(f, InputType)
        new == IF Out = "void"
               THEN TerminalStep(w.handles[h].step, f, InputType, k)
               ELSE TransformStep(w.handles[h].step, f, InputType, Out, k)
    IN PipelineCtor([base EXCEPT !.steps = Append(base.steps, new)],
                    Len(base.steps) + 1, FALSE, Out, ub)

\* operator| that declares the new step's input type to be the function's
\* result type
PipeTypedWrongInput(w, h, f, k, ub) ==
    LET base == MoveStep(w, h)
        InputType == w.handles[h].type
        Out == FunctionResult(f, InputType)
        new == IF Out = "void"
               THEN TerminalStep(w.handles[h].step, f, Out, k)
               ELSE TransformStep(w.handles[h].step, f, Out, Out, k)
    IN PipelineCtor([base EXCEPT !.steps = Append(base.steps, new)],
                    Len(base.steps) + 1, w.handles[h].immediate_execution, Out, ub)

\* Pipeline<T>::operator| on handle h with a one-argument function f
\* (k: how many of its first calls throw)
PipeTyped(w, h, f, k, ub) ==
    LET base == MoveStep(w, h)
        InputType == w.handles[h].type
        Out == FunctionResult(f, InputType)
        new == IF Out = "void"
               THEN TerminalStep(w.handles[h].step, f, InputType, k)
               ELSE TransformStep(w.handles[h].step, f, InputType, Out, k)
    IN PipelineCtor([base EXCEPT !.steps = Append(base.steps, new)],
                    Len(base.steps) + 1, w.handles[h].immediate_execution, Out, ub)

\* Pipeline<void>::operator| that returns a Pipeline<int>
PipeVoidReturnsTyped(w, h, f, k, ub) ==
    LET base == MoveStep(w, h)
        new == SequentialStep(w.handles[h].step, f, k)
    IN PipelineCtor([base EXCEPT !.steps = Append(base.steps, new)],
                    Len(base.steps) + 1, w.handles[h].immediate_execution,
                    "int", ub)

\* Pipeline<void>::operator| on handle h with a zero-argument function f
PipeVoid(w, h, f, k, ub) ==
    LET base == MoveStep(w, h)
        new == SequentialStep(w.handles[h].step, f, k)
    IN PipelineCtor([base EXCEPT !.steps = Append(base.steps, new)],
                    Len(base.steps) + 1, w.handles[h].immediate_execution,
                    "void", ub)

\* operator|(T&& value, F&& func): make_pipeline(value, false) | func.  The
\* handle make_pipeline returns is a temporary: only the new handle is left.
value_pipe(value, f, k) ==
    LET r == PipeTyped(Arena(make_pipeline(value, FALSE)), 1, f, k, "crash")
    IN [r EXCEPT !.handles = Tail(r.handles)]

\* Pipeline::execute / operator() on handle h
PipelineExecute(w, h, ub) ==
    LET st == StepExecute([steps |-> w.steps, log |-> w.log, err |-> "none",
                           asked |-> <<>>], w.handles[h].step, ub) IN
    IF st.err = "crash"
    THEN [steps |-> w.steps, handles |-> w.handles, log |-> w.log, err |-> "crash"]
    ELSE [steps |-> st.steps, handles |-> w.handles, log |-> st.log, err |-> st.err]

\* Pipeline(Pipeline&& other) noexcept = default, of Pipeline<T> and of
\* Pipeline<void>:  Pipeline<T> q(std::move(p));  on handle h = p.  The new
\* handle takes the step and the flag, the source is left without a step.
MoveCtor(w, h) ==
    [steps |-> w.steps,
     handles |-> Append([w.handles EXCEPT ![h].step = Null], w.handles[h]),
     log |-> w.log, err |-> "none"]

\* Pipeline& operator=(Pipeline&& other) noexcept = default, of Pipeline<T>
\* and of Pipeline<void>:  p = std::move(q);  on the handles d = p and s = q
\* of one type.  The unique_ptr member is assigned by reset(other.release()):
\* the chain p owned is destroyed, p takes the step and the flag of q, and q
\* is left without a step; p = std::move(p) leaves p as it was.
MoveAssign(w, d, s) ==
    IF d = s
    THEN [steps |-> w.steps, handles |-> w.handles, log |-> w.log, err |-> "none"]
    ELSE [steps |-> Destroy(w.steps, w.handles[d].step),
          handles |-> [w.handles EXCEPT
                          ![d].step = w.handles[s].step,
                          ![d].immediate_execution = w.handles[s].immediate_execution,
                          ![s].step = Null],
          log |-> w.log, err |-> "none"]

\* ------------------------------------------------- MemReserver<T, N>
\* the raw bytes of a slot in which no object lives
NoObj == 0

\* the values an element is constructed from
ObjValues == {1, 2}

Indices == 0..(N - 1)

\* the object as constructed: slots all free, free_stack[i] = i, free_top = N
MemReserver ==
    [slots |-> [i \in Indices |-> [occupied |-> FALSE, obj |-> NoObj]],
     free_stack |-> [i \in Indices |-> i],
     free_top |-> N]

\* MemReserver::count
count(p) == N - p.free_top

\* Slot::construct: placement new, then occupied = true; a constructor that
\* throws leaves the flag as it was
construct(slot, v, ctor_throws) ==
    IF ctor_throws THEN [slot |-> slot, err |-> "ctor"]
    ELSE [slot |-> [occupied |-> TRUE, obj |-> v], err |-> "none"]

\* Slot::destruct
destruct(slot) ==
    IF slot.occupied THEN [occupied |-> FALSE, obj |-> NoObj] ELSE slot

\* MemReserver::create: the pool after the call, the exception thrown
\* ("ctor": the one of T's constructor) and the index of the slot used
create(p, v, ctor_throws) ==
    IF p.free_top = 0
    THEN [p |-> p, err |-> "NotEnoughSlotsError", ret |-> count(p)]
    ELSE LET top == p.free_top - 1
             idx == p.free_stack[top]
             c == construct(p.slots[idx], v, ctor_throws)
         IN [p |-> [p EXCEPT !.free_top = top, !.slots[idx] = c.slot],
             err |-> c.err, ret |-> idx]

\* delete_ without the test of `occupied`
delete_NoCheck(p, index) ==
    IF index >= N
    THEN [p |-> p, err |-> "EmptySlotError"]
    ELSE [p |-> [p EXCEPT !.slots[index] = destruct(p.slots[index]),
                          !.free_stack[p.free_top % N] = index,
                          !.free_top = (p.free_top + 1) % (N + 1)],
          err |-> "none"]

\* MemReserver::delete_
delete_(p, index) ==
    IF index >= N \/ ~p.slots[index].occupied
    THEN [p |-> p, err |-> "EmptySlotError"]
    ELSE [p |-> [p EXCEPT !.slots[index] = destruct(p.slots[index]),
                          !.free_stack[p.free_top] = index,
                          !.free_top = p.free_top + 1],
          err |-> "none"]

\* MemReserver::get
get(p, index) ==
    IF index >= N \/ ~p.slots[index].occupied
    THEN [p |-> p, err |-> "EmptySlotError", ret |-> NoObj]
    ELSE [p |-> p, err |-> "none", ret |-> p.slots[index].obj]

\* ----------------------------------------------------------- Mask<N>
\* the values a mask is constructed from, and the elements of a container
MaskValues == {0, 1, 2}
Elems == {1, 2}

\* the functions handed to transform and slice_and_transform
ElemFns == {"inc", "sq"}

\* std::invoke(f, x)
invoke(f, x) == IF f = "inc" THEN x + 1 ELSE x * x

NoCall == [op |-> "none", f |-> "none", arg |-> <<>>]

\* Mask::Mask(vals...): the array, or the exception thrown
Mask(vals) ==
    IF \E i \in DOMAIN vals : vals[i] # 0 /\ vals[i] # 1
    THEN [err |-> "domain_error", data_ |-> <<>>]
    ELSE [err |-> "none", data_ |-> vals]

\* Mask::size: N is the length of data_
size(m) == Len(m)

\* Mask::at (index counts from 0)
at(m, index) ==
    IF index >= size(m) THEN [err |-> "out_of_range", val |-> 0]
    ELSE [err |-> "none", val |-> m[index + 1]]

\* container.erase(it): the iterator it is the position, from 1, of the
\* element it points to; the iterator returned is the same position
erase(c, it) == SubSeq(c, 1, it - 1) \o SubSeq(c, it + 1, Len(c))

RECURSIVE slice_loop(_, _, _, _)

\* the loop of slice with mask_idx advanced only when an element is kept
slice_loopSkipsIndex(m, c, it, mask_idx) ==
    IF it > Len(c) THEN [err |-> "none", c |-> c]
    ELSE LET a == at(m, mask_idx % size(m)) IN
         IF a.err # "none" THEN [err |-> a.err, c |-> c]
         ELSE IF a.val # 1 THEN slice_loop(m, erase(c, it), it, mask_idx)
         ELSE slice_loop(m, c, it + 1, mask_idx + 1)

\* the while loop of Mask::slice, from the iterator it and mask_idx on
slice_loop(m, c, it, mask_idx) ==
    IF it > Len(c) THEN [err |-> "none", c |-> c]
    ELSE LET a == at(m, mask_idx % size(m)) IN
         IF a.err # "none" THEN [err |-> a.err, c |-> c]
         ELSE IF a.val # 1 THEN slice_loop(m, erase(c, it), it, mask_idx + 1)
         ELSE slice_loop(m, c, it + 1, mask_idx + 1)

\* Mask::slice(container): the container as the call leaves it
slice(m, c) == slice_loop(m, c, 1, 0)

\* the for loop of Mask::transform over the copy `result`
RECURSIVE transform_loop(_, _, _, _, _)
transform_loop(m, res, result_it, mask_idx, f) ==
    IF result_it > Len(res) THEN [err |-> "none", c |-> res]
    ELSE LET a == at(m, mask_idx % size(m)) IN
         IF a.err # "none" THEN [err |-> a.err, c |-> <<>>]
         ELSE IF a.val = 1
         THEN transform_loop(m, [res EXCEPT ![result_it] = invoke(f, res[result_it])],
                             result_it + 1, mask_idx + 1, f)
         ELSE transform_loop(m, res, result_it + 1, mask_idx + 1, f)

\* Mask::transform(container, f): the container returned
transform(m, c, f) == transform_loop(m, c, 1, 0, f)

\* the range-for loop of Mask::slice_and_transform, from element k on
RECURSIVE slice_and_transform_loop(_, _, _, _, _, _)
slice_and_transform_loop(m, c, k, res, mask_idx, f) ==
    IF k > Len(c) THEN [err |-> "none", c |-> res]
    ELSE LET a == at(m, mask_idx % size(m)) IN
         IF a.err # "none" THEN [err |-> a.err, c |-> <<>>]
         ELSE IF a.val = 1
         THEN slice_and_transform_loop(m, c, k + 1, Append(res, invoke(f, c[k])),
                                       mask_idx + 1, f)
         ELSE slice_and_transform_loop(m, c, k + 1, res, mask_idx + 1, f)

\* Mask::slice_and_transform(container, f): the container returned
slice_and_transform(m, c, f) == slice_and_transform_loop(m, c, 1, <<>>, 0, f)

\* --------------------------------------------------------------- actions
UBOutcomes == {"crash", "return"}

\* the outcomes to consider for an operation on handle h of arena w: a null
\* pointer is called only when the handle has no step or its chain does not
\* begin with an InitialStep
UBChoices(w, h) ==
    IF w.handles[h].step = Null \/ w.steps[1].kind # "Initial"
    THEN UBOutcomes ELSE {"crash"}

\* the handles the caller holds: <<arena, index>>
Handles == UNION {{<<c, h>> : h \in DOMAIN chains[c].handles} : c \in DOMAIN chains}

RECURSIVE SumLen(_)
SumLen(cs) == IF cs = <<>> THEN 0 ELSE Len(Head(cs).steps) + SumLen(Tail(cs))

\* the step objects allocated so far
NumSteps == SumLen(chains)

\* the calls that are still to throw plus those that threw: the failures
\* injected into one run are at most MaxFails
RECURSIVE SumFails(_)
SumFails(ss) == IF ss = <<>> THEN 0 ELSE Head(ss).fails + SumFails(Tail(ss))

RECURSIVE Injected(_)
Injected(cs) ==
    IF cs = <<>> THEN 0
    ELSE SumFails(Head(cs).steps)
         + Cardinality({i \in DOMAIN Head(cs).log : ~Head(cs).log[i].ok})
         + Injected(Tail(cs))

FailChoices == 0..(MaxFails - Injected(chains))

\* the transform steps of the chain stay within the modelled integers
InBounds(ss, id) ==
    ss[id].kind = "Transform" => ChainValue(ss, id).n <= MaxVal

\* the result r of an operation on handle h of arena c becomes the state
Commit(c, h, r, grows) ==
    /\ grows /\ chains[c].handles[h].step = Null => Len(chains) < MaxChains
    /\ chains' = IF grows /\ chains[c].handles[h].step = Null
                 THEN Append(chains, Arena(r))
                 ELSE [chains EXCEPT ![c] = Arena(r)]
    /\ crashed' = (r.err = "crash")
    /\ thrown' = r.err
    /\ UNCHANGED <<reserver, masks>>

Init ==
    /\ chains = <<>>
    /\ crashed = FALSE
    /\ thrown = "none"
    /\ slots = MemReserver.slots
    /\ free_stack = MemReserver.free_stack
    /\ free_top = MemReserver.free_top
    /\ data_ = <<>>
    /\ container = <<>>
    /\ result = <<>>
    /\ mask_call = NoCall

\* auto p = make_pipeline(v, immediate);
MakePipeline ==
    /\ ~crashed
    /\ NumSteps < MaxSteps
    /\ Len(chains) < MaxChains
    /\ \E v \in SeedValues, immediate \in BOOLEAN :
          /\ chains' = Append(chains, Arena(make_pipeline(v, immediate)))
          /\ thrown' = make_pipeline(v, immediate).err
          /\ UNCHANGED <<crashed, reserver, masks>>

\* auto p = v | f;
ValuePipe ==
    /\ ~crashed
    /\ NumSteps + 1 < MaxSteps
    /\ Len(chains) < MaxChains
    /\ \E v \in SeedValues, f \in UnaryFns, k \in FailChoices :
          /\ FunctionResult(f, v.t) # "invalid"
          /\ LET r == value_pipe(v, f, k) IN
             /\ InBounds(r.steps, Len(r.steps))
             /\ chains' = Append(chains, Arena(r))
             /\ thrown' = r.err
             /\ UNCHANGED <<crashed, reserver, masks>>

\* auto q = p | f;  on the handle p = ch, a Pipeline<T> with T not void.  The
\* handle p is an lvalue that stays in scope, with or without a step.
ThenTypedOn(ch) ==
    /\ ~crashed
    /\ NumSteps < MaxSteps
    /\ \E f \in UnaryFns, k \in FailChoices, ub \in UBOutcomes :
          LET w == chains[ch[1]]
              h == ch[2] IN
          /\ ub \in UBChoices(w, h)
          /\ w.handles[h].type # "void"
          /\ FunctionResult(f, w.handles[h].type) # "invalid"
          /\ LET r == PipeTyped(w, h, f, k, ub) IN
             /\ InBounds(r.steps, Len(r.steps))
             /\ Commit(ch[1], h, r, TRUE)

ThenTyped == \E ch \in Handles : ThenTypedOn(ch)

\* auto q = p | f;  on the handle p = ch, a Pipeline<void>
ThenVoidOn(ch) ==
    /\ ~crashed
    /\ NumSteps < MaxSteps
    /\ \E f \in ZeroArgFns, k \in FailChoices, ub \in UBOutcomes :
          LET w == chains[ch[1]]
              h == ch[2] IN
          /\ ub \in UBChoices(w, h)
          /\ w.handles[h].type = "void"
          /\ Commit(ch[1], h, PipeVoid(w, h, f, k, ub), TRUE)

ThenVoid == \E ch \in Handles : ThenVoidOn(ch)

\* p.execute();  or  p();  on the handle p = ch
ExecuteOn(ch) ==
    /\ ~crashed
    /\ \E ub \in UBOutcomes :
          /\ ub \in UBChoices(chains[ch[1]], ch[2])
          /\ Commit(ch[1], ch[2], PipelineExecute(chains[ch[1]], ch[2], ub), FALSE)

Execute == \E ch \in Handles : ExecuteOn(ch)

\* the Pipeline objects in scope
RECURSIVE SumHandles(_)
SumHandles(cs) ==
    IF cs = <<>> THEN 0 ELSE Len(Head(cs).handles) + SumHandles(Tail(cs))

NumHandles == SumHandles(chains)

\* Pipeline<T> q(std::move(p));  on the handle p = ch, T not void
MoveConstructTyped ==
    \E ch \in Handles :
        /\ ~crashed
        /\ NumHandles < NumSteps + MaxMoved
        /\ chains[ch[1]].handles[ch[2]].type # "void"
        /\ Commit(ch[1], ch[2], MoveCtor(chains[ch[1]], ch[2]), FALSE)

\* Pipeline<void> q(std::move(p));  on the handle p = ch
MoveConstructVoid ==
    \E ch \in Handles :
        /\ ~crashed
        /\ NumHandles < NumSteps + MaxMoved
        /\ chains[ch[1]].handles[ch[2]].type = "void"
        /\ Commit(ch[1], ch[2], MoveCtor(chains[ch[1]], ch[2]), FALSE)

\* p = std::move(q);  on the handles p = ch and q = <<ch[1], s>> of one
\* Pipeline<T>, T not void, whose steps lie in one arena
MoveAssignTyped ==
    \E ch \in Handles :
        \E s \in DOMAIN chains[ch[1]].handles :
            /\ ~crashed
            /\ chains[ch[1]].handles[ch[2]].type # "void"
            /\ chains[ch[1]].handles[s].type = chains[ch[1]].handles[ch[2]].type
            /\ Commit(ch[1], ch[2], MoveAssign(chains[ch[1]], ch[2], s), FALSE)

\* p = std::move(q);  on two handles of Pipeline<void>
MoveAssignVoid ==
    \E ch \in Handles :
        \E s \in DOMAIN chains[ch[1]].handles :
            /\ ~crashed
            /\ chains[ch[1]].handles[ch[2]].type = "void"
            /\ chains[ch[1]].handles[s].type = "void"
            /\ Commit(ch[1], ch[2], MoveAssign(chains[ch[1]], ch[2], s), FALSE)

Next ==
    \/ MakePipeline \/ ValuePipe \/ ThenTyped \/ ThenVoid \/ Execute
    \/ MoveConstructTyped \/ MoveConstructVoid
    \/ MoveAssignTyped \/ MoveAssignVoid

Spec == Init /\ [][Next]_vars

\* ------------------------------------------- the calls on a MemReserver
\* the pool object as one record
Pool == [slots |-> slots, free_stack |-> free_stack, free_top |-> free_top]

\* pool.create(v), with a constructor of T that throws or does not
Create ==
    \E v \in ObjValues, ctor_throws \in BOOLEAN :
        LET r == create(Pool, v, ctor_throws) IN
        /\ slots' = r.p.slots
        /\ free_stack' = r.p.free_stack
        /\ free_top' = r.p.free_top
        /\ thrown' = r.err
        /\ UNCHANGED <<pipelines, masks>>

\* pool.delete_(index); index N stands for the indices out of range
Delete ==
    \E index \in 0..N :
        LET r == delete_(Pool, index) IN
        /\ slots' = r.p.slots
        /\ free_stack' = r.p.free_stack
        /\ free_top' = r.p.free_top
        /\ thrown' = r.err
        /\ UNCHANGED <<pipelines, masks>>

\* pool.get(index)
Get ==
    \E index \in 0..N :
        LET r == get(Pool, index) IN
        /\ slots' = r.p.slots
        /\ free_stack' = r.p.free_stack
        /\ free_top' = r.p.free_top
        /\ thrown' = r.err
        /\ UNCHANGED <<pipelines, masks>>

ReserverNext == Create \/ Delete \/ Get

ReserverSpec == Init /\ [][ReserverNext]_vars

\* ----------------------------------------------- the calls on a Mask<N>
\* Mask<n> mask(vals...);  with n >= 1.  A constructor that throws leaves
\* the caller with the mask it had.
NewMask ==
    \E n \in 1..MaxMask :
        \E vals \in [1..n -> MaskValues] :
            LET r == Mask(vals) IN
            /\ data_' = IF r.err = "none" THEN r.data_ ELSE data_
            /\ thrown' = r.err
            /\ mask_call' = NoCall
            /\ result' = <<>>
            /\ UNCHANGED <<container, pipelines, reserver>>

\* container = {...};  the caller fills its container
SetContainer ==
    \E n \in 0..MaxLen :
        \E c \in [1..n -> Elems] :
            /\ container' = c
            /\ mask_call' = NoCall
            /\ result' = <<>>
            /\ thrown' = "none"
            /\ UNCHANGED <<data_, pipelines, reserver>>

\* mask.slice(container);
Slice ==
    /\ data_ # <<>>
    /\ LET r == slice(data_, container) IN
       /\ container' = r.c
       /\ thrown' = r.err
       /\ mask_call' = [op |-> "slice", f |-> "none", arg |-> container]
       /\ UNCHANGED <<data_, result, pipelines, reserver>>

\* result = mask.transform(container, f);
Transform ==
    /\ data_ # <<>>
    /\ \E f \in ElemFns :
          LET r == transform(data_, container, f) IN
          /\ result' = r.c
          /\ thrown' = r.err
          /\ mask_call' = [op |-> "transform", f |-> f, arg |-> container]
          /\ UNCHANGED <<data_, container, pipelines, reserver>>

\* result = mask.slice_and_transform(container, f);
SliceAndTransform ==
    /\ data_ # <<>>
    /\ \E f \in ElemFns :
          LET r == slice_and_transform(data_, container, f) IN
          /\ result' = r.c
          /\ thrown' = r.err
          /\ mask_call' = [op |-> "slice_and_transform", f |-> f, arg |-> container]
          /\ UNCHANGED <<data_, container, pipelines, reserver>>

MaskNext == NewMask \/ SetContainer \/ Slice \/ Transform \/ SliceAndTransform

MaskSpec == Init /\ [][MaskNext]_vars

\* ------------------------------------------------- helpers of the claims
\* the arena begins with a seed: it was begun by make_pipeline
Rooted(w) == Len(w.steps) > 0 /\ w.steps[1].kind = "Initial"

\* no step function of the arena throws or has thrown
NoFail(w) ==
    /\ \A i \in DOMAIN w.steps : w.steps[i].fails = 0
    /\ \A k \in DOMAIN w.log : w.log[k].ok

\* the handles of the arena that own a step
Live(w) == {h \in DOMAIN w.handles : w.handles[h].step # Null}

\* the arena's handles (there is one) have immediate_execution unset
Deferred(w) ==
    /\ w.handles # <<>>
    /\ \A h \in DOMAIN w.handles : ~w.handles[h].immediate_execution

\* the arena's handles (there is one) have immediate_execution set
Immediate(w) ==
    /\ w.handles # <<>>
    /\ \A h \in DOMAIN w.handles : w.handles[h].immediate_execution

\* how often the function of step i was invoked
Calls(w, i) == Cardinality({k \in DOMAIN w.log : w.log[k].step = i})

\* the steps a step owns, itself included
RECURSIVE ChainOf(_, _)
ChainOf(ss, id) ==
    IF id = Null THEN {} ELSE {id} \cup ChainOf(ss, ss[id].previous)

Tip(w, h) == w.handles[h].step

\* ------------------------------------------------------------------- C1
\* C1: idempotence.  In a chain begun by make_pipeline whose functions do
\* not throw, the function of every non-seed step has been invoked once if
\* the step ran and never otherwise; execute() on its handle runs every
\* step of the chain, each function invoked exactly once in total, and a
\* further execute() returns the very same steps, flags, results and log.
C1_Idempotence ==
    \A c \in DOMAIN chains :
        LET w == chains[c] IN
        (Rooted(w) /\ NoFail(w)) =>
            /\ \A i \in DOMAIN w.steps :
                   w.steps[i].kind # "Initial" =>
                       Calls(w, i) = (IF w.steps[i].executed THEN 1 ELSE 0)
            /\ \A h \in Live(w) :
                   LET r1 == PipelineExecute(w, h, "crash")
                       r2 == PipelineExecute(Arena(r1), h, "crash")
                   IN /\ r1.err = "none"
                      /\ r2 = r1
                      /\ \A i \in ChainOf(w.steps, Tip(w, h)) :
                             /\ r1.steps[i].executed
                             /\ w.steps[i].kind # "Initial" => Calls(Arena(r1), i) = 1

\* a deferred chain seed -> transform -> terminal -> sequential that was
\* executed: every function invoked once
C1_Witness ==
    \E c \in DOMAIN chains :
        LET w == chains[c] IN
        /\ Rooted(w) /\ NoFail(w) /\ Deferred(w)
        /\ Len(w.steps) = 4
        /\ w.steps[2].kind = "Transform"
        /\ w.steps[3].kind = "Terminal"
        /\ w.steps[4].kind = "Sequential"
        /\ \A i \in 1..4 : w.steps[i].executed
        /\ \A i \in 2..4 : Calls(w, i) = 1
        /\ Live(w) # {}

\* ------------------------------------------------------------------- C2
\* C2: order preservation.  Whenever the function of a step is invoked,
\* its predecessor has completed before: a seed has its flag set, any other
\* predecessor has an earlier successful invocation in the log, and a
\* transform predecessor has its result slot populated with the very value
\* the step receives; hence the invocations of a chain appear in the log in
\* construction order.
C2_Order ==
    \A c \in DOMAIN chains :
        LET w == chains[c] IN
        \A k \in DOMAIN w.log :
            LET s == w.steps[w.log[k].step]
                p == s.previous
            IN /\ p # Null =>
                     /\ w.steps[p].kind = "Initial" => w.steps[p].executed
                     /\ w.steps[p].kind # "Initial" =>
                            \E j \in 1..(k - 1) : w.log[j].step = p /\ w.log[j].ok
                     /\ (w.steps[p].kind = "Transform" /\ s.kind # "Sequential") =>
                            /\ w.steps[p].has_result
                            /\ w.log[k].arg = w.steps[p].result
               /\ \A j \in 1..(k - 1) :
                     /\ w.log[j].step <= w.log[k].step
                     /\ w.log[j].ok => w.log[j].step < w.log[k].step

\* seed -> terminal -> sequential -> sequential, executed: the three effects
\* are in the log in construction order
C2_Witness ==
    \E c \in DOMAIN chains :
        LET w == chains[c] IN
        /\ Rooted(w)
        /\ Len(w.steps) = 4
        /\ w.steps[2].kind = "Terminal"
        /\ w.steps[3].kind = "Sequential"
        /\ w.steps[4].kind = "Sequential"
        /\ Len(w.log) = 3
        /\ \A k \in 1..3 : w.log[k].step = k + 1 /\ w.log[k].ok

\* ------------------------------------------------------------------- C3
\* C3: result of a chain.  In a chain begun by make_pipeline the result slot
\* of an executed transform step holds the composition of the functions up
\* to it applied to the seed, a terminal step receives the composition up
\* to its predecessor, and one execute() of a deferred chain whose functions
\* do not throw populates every transform step's slot with that value and
\* hands it to the terminal step.
C3_Result ==
    \A c \in DOMAIN chains :
        LET w == chains[c] IN
        Rooted(w) =>
            /\ \A i \in DOMAIN w.steps :
                   (w.steps[i].kind = "Transform" /\ w.steps[i].executed) =>
                       /\ w.steps[i].has_result
                       /\ w.steps[i].result = ChainValue(w.steps, i)
            /\ \A k \in DOMAIN w.log :
                   w.steps[w.log[k].step].kind = "Terminal" =>
                       w.log[k].arg =
                           ChainValue(w.steps, w.steps[w.log[k].step].previous)
            /\ \A h \in Live(w) :
                   (NoFail(w) /\ Deferred(w)) =>
                       LET r == PipelineExecute(w, h, "crash") IN
                       \A i \in ChainOf(w.steps, Tip(w, h)) :
                           /\ w.steps[i].kind = "Transform" =>
                                  /\ r.steps[i].has_result
                                  /\ r.steps[i].result = ChainValue(w.steps, i)
                           /\ w.steps[i].kind = "Terminal" =>
                                  \E k \in DOMAIN r.log :
                                      /\ r.log[k].step = i
                                      /\ r.log[k].arg =
                                             ChainValue(w.steps, w.steps[i].previous)

\* seed 5, x + 10, x * x, then a terminal step, deferred and executed:
\* the slots hold 15 and 225 and the terminal step received 225
C3_Witness ==
    \E c \in DOMAIN chains :
        LET w == chains[c] IN
        /\ Deferred(w)
        /\ Len(w.steps) = 4
        /\ w.steps[1].value = IntVal(5)
        /\ w.steps[2].func = "add10" /\ w.steps[2].result = IntVal(15)
        /\ w.steps[3].func = "sq" /\ w.steps[3].result = IntVal(225)
        /\ w.steps[3].has_result
        /\ w.steps[4].kind = "Terminal"
        /\ w.log = <<[step |-> 2, arg |-> IntVal(5), ok |-> TRUE],
                     [step |-> 3, arg |-> IntVal(15), ok |-> TRUE],
                     [step |-> 4, arg |-> IntVal(225), ok |-> TRUE]>>

\* ------------------------------------------------------------------- C4
\* the chain a caller gets who builds the steps ss[1..n] with
\* make_pipeline(v, true) and operator|, functions that do not throw
RECURSIVE ImmediateBuild(_, _)
ImmediateBuild(ss, n) ==
    IF n = 1 THEN Arena(make_pipeline(ss[1].value, TRUE))
    ELSE LET a == ImmediateBuild(ss, n - 1)
             h == Len(a.handles)
         IN IF ss[n].kind = "Sequential"
            THEN Arena(PipeVoid(a, h, ss[n].func, 0, "crash"))
            ELSE Arena(PipeTyped(a, h, ss[n].func, 0, "crash"))

\* seed value and functions of a chain, in order
Program(w) ==
    [i \in DOMAIN w.steps |-> <<w.steps[i].kind, w.steps[i].func, w.steps[i].value>>]

SameOutcome(a, b) ==
    /\ Len(a.steps) = Len(b.steps)
    /\ \A i \in DOMAIN a.steps :
           /\ a.steps[i].executed = b.steps[i].executed
           /\ a.steps[i].has_result = b.steps[i].has_result
           /\ a.steps[i].result = b.steps[i].result
           /\ Calls(a, i) = Calls(b, i)
    /\ a.log = b.log

\* C4: immediate and deferred agree.  A deferred chain whose functions do
\* not throw, executed once, has the ran flags, result slots and invocation
\* log (arguments included, each function once) of the chain built from the
\* same seed and functions with immediate = true; and any immediate chain
\* and executed deferred chain of the same seed and functions that exist
\* side by side agree in the same way.
C4_Equivalence ==
    /\ \A c \in DOMAIN chains :
           LET b == chains[c] IN
           (Rooted(b) /\ NoFail(b) /\ Deferred(b)) =>
               \A h \in Live(b) :
                   /\ SameOutcome(ImmediateBuild(b.steps, Len(b.steps)),
                                  Arena(PipelineExecute(b, h, "crash")))
                   /\ \A i \in DOMAIN b.steps :
                          b.steps[i].kind = "Terminal" =>
                              Calls(Arena(PipelineExecute(b, h, "crash")), i) = 1
    /\ \A c1 \in DOMAIN chains, c2 \in DOMAIN chains :
           LET a == chains[c1]
               b == chains[c2]
           IN (/\ Rooted(a) /\ Immediate(a) /\ Live(a) # {}
               /\ Rooted(b) /\ Deferred(b) /\ NoFail(b)
               /\ \E h \in Live(b) : b.steps[Tip(b, h)].executed
               /\ Program(a) = Program(b))
              => SameOutcome(a, b)

\* a deferred chain seed -> transform -> transform -> terminal that was
\* executed, and is as the immediate build of the same seed and functions
C4_Witness ==
    \E c \in DOMAIN chains :
        LET b == chains[c]
            a == ImmediateBuild(b.steps, Len(b.steps))
        IN /\ Rooted(b) /\ Deferred(b) /\ NoFail(b) /\ Live(b) # {}
           /\ Len(b.steps) = 4
           /\ b.steps[3].kind = "Transform"
           /\ b.steps[4].kind = "Terminal" /\ b.steps[4].executed
           /\ Immediate(a) /\ Len(a.handles) = 4
           /\ SameOutcome(a, b)
           /\ Len(a.log) = 3

\* ------------------------------------------------------------------- C5
\* the functions operator| accepts on handle h of arena w
Accepted(w, h) ==
    IF w.handles[h].type = "void" THEN ZeroArgFns
    ELSE {f \in UnaryFns : FunctionResult(f, w.handles[h].type) # "invalid"}

\* operator| on handle h of arena w, whichever class the handle is of
Pipe(w, h, f, k, ub) ==
    IF w.handles[h].type = "void" THEN PipeVoid(w, h, f, k, ub)
    ELSE PipeTyped(w, h, f, k, ub)

\* C5: immediate mode.  make_pipeline(v, true) returns with the seed run;
\* every step owned by a handle with immediate_execution set has run; and
\* operator| on such a handle, with a function that does not throw, returns
\* a handle that has immediate_execution set and owns the new step, already
\* run (its function invoked once).
C5_Immediate ==
    /\ \A v \in SeedValues :
           LET r == make_pipeline(v, TRUE) IN
           /\ r.steps[1].executed
           /\ r.handles[1].immediate_execution
    /\ \A c \in DOMAIN chains :
           LET w == chains[c] IN
           \A h \in Live(w) :
               (Rooted(w) /\ w.handles[h].immediate_execution) =>
                   /\ \A i \in ChainOf(w.steps, Tip(w, h)) :
                          w.steps[i].executed /\ w.steps[i].alive
                   /\ \A f \in Accepted(w, h) :
                          LET r == Pipe(w, h, f, 0, "crash")
                              n == Len(r.steps)
                              q == Len(r.handles)
                          IN /\ r.err = "none"
                             /\ n = Len(w.steps) + 1
                             /\ q = Len(w.handles) + 1
                             /\ r.handles[q].immediate_execution
                             /\ r.handles[q].step = n
                             /\ r.steps[n].executed
                             /\ Calls(Arena(r), n) = 1

\* an immediate chain seed -> transform -> terminal -> sequential: all four
\* steps have run
C5_Witness ==
    \E c \in DOMAIN chains :
        LET w == chains[c] IN
        /\ Rooted(w) /\ Immediate(w)
        /\ Len(w.steps) = 4
        /\ w.steps[2].kind = "Transform"
        /\ w.steps[3].kind = "Terminal"
        /\ w.steps[4].kind = "Sequential"
        /\ \E h \in Live(w) : Tip(w, h) = 4 /\ w.handles[h].immediate_execution
        /\ \A i \in 1..4 : w.steps[i].executed

\* ------------------------------------------------------------------- C6
\* nothing of the arena has run
Untouched(w) ==
    /\ w.log = <<>>
    /\ \A i \in DOMAIN w.steps : ~w.steps[i].executed /\ ~w.steps[i].has_result

\* what running leaves on a step: its ran flag, its result slot and the
\* throws its function still has to make
RunState(s) == <<s.executed, s.has_result, s.result, s.fails>>

\* C6: deferred mode.  In every step of the system: a chain whose handles
\* have immediate_execution unset changes the ran flag, the result slot or
\* the pending throws of one of its existing steps, or its log, only in an
\* execute() on one of its handles (a move of a handle runs nothing, also
\* when it destroys the chain the destination owned); the steps operator|
\* adds to it have not run; and a chain that
\* comes into being with immediate_execution unset (make_pipeline(v, false),
\* v | f, operator| on a handle without a step) has run nothing.
C6_DeferredSteps ==
    /\ \A c \in DOMAIN chains :
           (Deferred(chains[c]) /\ c \in DOMAIN chains') =>
               /\ (\/ chains'[c].log # chains[c].log
                   \/ \E i \in DOMAIN chains[c].steps :
                          RunState(chains'[c].steps[i]) # RunState(chains[c].steps[i]))
                  => \E h \in DOMAIN chains[c].handles : ExecuteOn(<<c, h>>)
               /\ \A i \in DOMAIN chains'[c].steps :
                      i \notin DOMAIN chains[c].steps =>
                          /\ ~chains'[c].steps[i].executed
                          /\ ~chains'[c].steps[i].has_result
               /\ Deferred(chains'[c])
    /\ \A c \in DOMAIN chains' :
           (c \notin DOMAIN chains /\ Deferred(chains'[c])) => Untouched(chains'[c])

C6_Deferred == [][C6_DeferredSteps]_vars

\* a deferred chain of four steps of which nothing has run
C6_Witness ==
    \E c \in DOMAIN chains :
        LET w == chains[c] IN
        /\ Rooted(w) /\ Deferred(w) /\ Untouched(w)
        /\ Len(w.steps) = 4
        /\ w.steps[4].kind = "Terminal"
        /\ Live(w) # {}

\* ------------------------------------------------------------------- C7
TypeRecoveryFailure == "Cannot get value from previous step"

\* C7: type soundness.  In a chain begun by make_pipeline every transform
\* and terminal step has as predecessor the InitialStep of its input type
\* or a ResultHolder of its input type; neither execute() on its handle nor
\* a further operator| (which executes, on an immediate handle) ends in the
\* third branch of the type recovery; and a sequential step is handed no
\* upstream value.
C7_TypeSound ==
    \A c \in DOMAIN chains :
        LET w == chains[c] IN
        Rooted(w) =>
            /\ \A i \in DOMAIN w.steps :
                   w.steps[i].kind \in {"Transform", "Terminal"} =>
                       LET p == w.steps[i].previous IN
                       /\ p # Null
                       /\ \/ w.steps[p].kind = "Initial"
                          \/ w.steps[p].kind = "Transform"
                       /\ w.steps[p].outT = w.steps[i].inT
                       /\ RecoverInput(w.steps, p, w.steps[i].inT).err
                              # TypeRecoveryFailure
            /\ \A k \in DOMAIN w.log :
                   w.steps[w.log[k].step].kind = "Sequential" => w.log[k].arg = NoVal
            /\ \A h \in Live(w) :
                   /\ PipelineExecute(w, h, "crash").err # TypeRecoveryFailure
                   /\ \A f \in Accepted(w, h), k \in 0..1 :
                          Pipe(w, h, f, k, "crash").err # TypeRecoveryFailure

\* string -> size (size_t) -> "Size is: 5" (string) -> print, executed: the
\* input was recovered at every step, over three changes of type
C7_Witness ==
    \E c \in DOMAIN chains :
        LET w == chains[c] IN
        /\ Rooted(w)
        /\ Len(w.steps) = 4
        /\ w.steps[1].outT = "string"
        /\ w.steps[2].func = "size" /\ w.steps[2].result = SizeVal(5)
        /\ w.steps[3].func = "toStr"
        /\ w.steps[3].result = StrVal(SizeIs \o <<"5">>)
        /\ w.steps[4].kind = "Terminal" /\ w.steps[4].executed
        /\ w.log[3].arg = StrVal(SizeIs \o <<"5">>)

\* ------------------------------------------------------------------- C8
ValueTypes == {"int", "size_t", "string"}

\* C8: the handle state machine.  make_pipeline returns a handle of the
\* seed's type; operator| with a value-returning function takes a handle
\* of type T to one of the function's result type over a new transform
\* step; with a function returning nothing, to a void handle over a new
\* terminal step; on a void handle it takes zero-argument functions only
\* and gives a void handle over a new sequential step.  A handle is void
\* exactly when its step is a terminal or sequential step, and nothing but
\* sequential steps ever follows a terminal or sequential step.
C8_StateMachine ==
    /\ \A v \in SeedValues, imm \in BOOLEAN :
           /\ make_pipeline(v, imm).handles[1].type = v.t
           /\ v.t \in ValueTypes
    /\ \A f \in UnaryFns : FunctionResult(f, "void") = "invalid"
    /\ \A c \in DOMAIN chains :
           LET w == chains[c] IN
           /\ \A h \in DOMAIN w.handles : w.handles[h].type \in ValueTypes \cup {"void"}
           /\ \A h \in Live(w) :
                  LET T == w.handles[h].type
                      tip == w.steps[Tip(w, h)]
                  IN /\ T = "void" <=> tip.kind \in {"Terminal", "Sequential"}
                     /\ T # "void" =>
                            tip.kind \in {"Initial", "Transform"} /\ tip.outT = T
                     /\ T = "void" => Accepted(w, h) = ZeroArgFns
                     /\ Rooted(w) =>
                            \A f \in Accepted(w, h) :
                                LET r == Pipe(w, h, f, 0, "crash")
                                    new == r.steps[Len(r.steps)]
                                    q == r.handles[Len(r.handles)]
                                    U == IF T = "void" THEN "void"
                                         ELSE FunctionResult(f, T)
                                IN /\ Len(r.handles) = Len(w.handles) + 1
                                   /\ q.type = U
                                   /\ new.previous = Tip(w, h)
                                   /\ new.func = f
                                   /\ T = "void" => new.kind = "Sequential"
                                   /\ (T # "void" /\ U = "void") =>
                                          new.kind = "Terminal" /\ new.inT = T
                                   /\ (T # "void" /\ U # "void") =>
                                          /\ new.kind = "Transform"
                                          /\ new.inT = T /\ new.outT = U
                                          /\ U \in ValueTypes
           /\ \A i \in DOMAIN w.steps :
                  LET p == w.steps[i].previous IN
                  p # Null =>
                      (w.steps[p].kind \in {"Terminal", "Sequential"}
                           <=> w.steps[i].kind = "Sequential")

\* string -> size_t -> void -> void: the handles made along a chain
\* seed, size, print, second
C8_Witness ==
    \E c \in DOMAIN chains :
        LET w == chains[c] IN
        /\ Rooted(w)
        /\ Len(w.steps) = 4 /\ Len(w.handles) = 4
        /\ [h \in 1..4 |-> w.handles[h].type] = <<"string", "size_t", "void", "void">>
        /\ [i \in 1..4 |-> w.steps[i].kind]
               = <<"Initial", "Transform", "Terminal", "Sequential">>
        /\ Live(w) = {4}

\* ------------------------------------------------------------------- C9
\* the owners of step i of arena w: handles, and live steps through
\* `previous`
Owners(w, i) ==
    {<<"handle", h>> : h \in {x \in DOMAIN w.handles : w.handles[x].step = i}}
    \cup {<<"step", j>> : j \in {x \in DOMAIN w.steps :
                                     w.steps[x].alive /\ w.steps[x].previous = i}}

\* every live step has exactly one owner, a destroyed one none
C9_Ownership ==
    \A c \in DOMAIN chains :
        LET w == chains[c] IN
        \A i \in DOMAIN w.steps :
            Cardinality(Owners(w, i)) = (IF w.steps[i].alive THEN 1 ELSE 0)

\* no operation is performed on a handle that owns no step
C9_NoReuse ==
    \A ch \in Handles :
        chains[ch[1]].handles[ch[2]].step = Null =>
            ~(ExecuteOn(ch) \/ ThenTypedOn(ch) \/ ThenVoidOn(ch))

\* C9: the consumed source handle.  Every step has exactly one owner, and
\* no execute() or operator| is performed on a handle whose step was moved
\* out of it.
C9_Consumed == []C9_Ownership /\ [][C9_NoReuse]_vars

\* ------------------------------------------------------------------ C10
ResultNotAvailable == "Result not set"

C10_Slot ==
    \A c \in DOMAIN chains :
        LET w == chains[c] IN
        \A i \in DOMAIN w.steps :
            w.steps[i].kind = "Transform" =>
                /\ w.steps[i].has_result <=> w.steps[i].executed
                /\ ~w.steps[i].executed =>
                       getResult(w.steps[i]).err = ResultNotAvailable
                /\ w.steps[i].executed =>
                       getResult(w.steps[i]) =
                           [err |-> "none", val |-> w.steps[i].result]

C10_FlagStays ==
    \A c \in DOMAIN chains :
        \A i \in DOMAIN chains[c].steps :
            chains[c].steps[i].has_result => chains'[c].steps[i].has_result

\* C10: result before execute.  getResult() on a transform step throws
\* "Result not set" as long as the step's execute() has not completed and
\* returns the stored value once it has; has_result, once set, stays set.
C10_ResultSlot == []C10_Slot /\ [][C10_FlagStays]_vars

\* a chain whose first transform step ran and whose second did not (its
\* function threw): the first slot is readable, the second is not
C10_Witness ==
    \E c \in DOMAIN chains :
        LET w == chains[c] IN
        /\ Len(w.steps) >= 3
        /\ w.steps[2].kind = "Transform" /\ w.steps[2].executed
        /\ getResult(w.steps[2]).err = "none"
        /\ getResult(w.steps[2]).val = ChainValue(w.steps, 2)
        /\ w.steps[3].kind = "Transform" /\ ~w.steps[3].executed
        /\ getResult(w.steps[3]).err = ResultNotAvailable
\* ------------------------------------------------------------------ C11
\* the steps handle h of arena w owns that have not run and whose function
\* is to throw at its next call
Throwing(w, h) ==
    {i \in ChainOf(w.steps, Tip(w, h)) : ~w.steps[i].executed /\ w.steps[i].fails > 0}

\* the first of them from the seed on: the step at which execute() aborts
FirstThrowing(w, h) ==
    CHOOSE k \in Throwing(w, h) : \A j \in Throwing(w, h) : k <= j

\* C11: error abort without rollback.  execute() on the handle of a
\* deferred chain begun by make_pipeline, in which step k is the first step
\* whose function throws: the error reaches the caller; the last invocation
\* is the one of step k, which threw; no step after k is invoked or changed;
\* step k has neither its ran flag nor a result; every step before k has its
\* ran flag set, a transform step before k its result, and a step that had
\* run before the call is exactly as it was.  Without such a step the call
\* returns normally.
C11_ErrorAbort ==
    \A c \in DOMAIN chains :
        LET w == chains[c] IN
        (Rooted(w) /\ Deferred(w)) =>
            \A h \in Live(w) :
                LET r == PipelineExecute(w, h, "crash") IN
                IF Throwing(w, h) = {} THEN r.err = "none"
                ELSE LET k == FirstThrowing(w, h) IN
                     /\ r.err = "func"
                     /\ Len(r.log) > Len(w.log)
                     /\ r.log[Len(r.log)].step = k
                     /\ ~r.log[Len(r.log)].ok
                     /\ \A n \in (Len(w.log) + 1)..Len(r.log) : r.log[n].step <= k
                     /\ ~r.steps[k].executed /\ ~r.steps[k].has_result
                     /\ \A i \in DOMAIN w.steps :
                            /\ i > k =>
                                   /\ r.steps[i] = w.steps[i]
                                   /\ Calls(Arena(r), i) = Calls(w, i)
                            /\ i < k =>
                                   /\ r.steps[i].executed
                                   /\ r.steps[i].kind = "Transform" =>
                                          /\ r.steps[i].has_result
                                          /\ r.steps[i].result = ChainValue(w.steps, i)
                                   /\ w.steps[i].executed => r.steps[i] = w.steps[i]

\* a deferred chain seed -> transform -> terminal -> sequential after an
\* execute() in which the terminal step's function threw: the transform
\* step ran and has its result, the sequential step was not reached
C11_Witness ==
    \E c \in DOMAIN chains :
        LET w == chains[c] IN
        /\ Rooted(w) /\ Deferred(w) /\ Live(w) # {}
        /\ Len(w.steps) = 4
        /\ w.steps[2].kind = "Transform"
        /\ w.steps[2].executed /\ w.steps[2].has_result
        /\ w.steps[3].kind = "Terminal" /\ ~w.steps[3].executed
        /\ w.steps[4].kind = "Sequential" /\ ~w.steps[4].executed
        /\ Len(w.log) = 2
        /\ w.log[1].step = 2 /\ w.log[1].ok
        /\ w.log[2].step = 3 /\ ~w.log[2].ok

\* ------------------------------------------------------------------ C12
\* the function of no step has been invoked more than once
C12_Once ==
    \A c \in DOMAIN chains :
        \A i \in DOMAIN chains[c].steps : Calls(chains[c], i) <= 1

\* a ran flag that is set stays set
C12_FlagStays ==
    \A c \in DOMAIN chains :
        \A i \in DOMAIN chains[c].steps :
            chains[c].steps[i].executed =>
                /\ c \in DOMAIN chains'
                /\ chains'[c].steps[i].executed

\* C12: at most once per step over its lifetime.  Over any sequence of
\* execute() calls, those aborted by a throwing function included, the
\* function of each step is invoked at most once, and a ran flag never goes
\* from set to unset.
C12_AtMostOnce == []C12_Once /\ [][C12_FlagStays]_vars

\* ------------------------------------- chains assembled from step objects
\* a std::unique_ptr<PipelineStepBase> the caller holds, owning the step s
StepHandle(s) == [step |-> s, immediate_execution |-> FALSE, type |-> "step"]

\* the functions given to the steps that are constructed directly: one that
\* keeps the type, one that changes it, one that returns nothing
AssembledFns == {"add10", "size", "print"}

\* auto s = std::make_unique<InitialStep<T>>(v);
NewInitialStep ==
    /\ ~crashed
    /\ NumSteps < MaxSteps
    /\ Len(chains) < MaxChains
    /\ \E v \in SeedValues :
          /\ chains' = Append(chains, [steps |-> <<InitialStep(v)>>,
                                       handles |-> <<StepHandle(1)>>,
                                       log |-> <<>>])
          /\ thrown' = "none"
          /\ UNCHANGED <<crashed, reserver, masks>>

\* auto t = std::make_unique<TransformStep<In, Out>>(std::move(s), f);  or
\* auto t = std::make_unique<TerminalStep<In>>(std::move(s), f);
\* over the step the pointer s = ch owns, whatever that step is
NewStepOverOn(ch) ==
    /\ ~crashed
    /\ NumSteps < MaxSteps
    /\ \E In \in ValueTypes, f \in AssembledFns, k \in FailChoices :
          LET w == chains[ch[1]]
              h == ch[2]
              Out == FunctionResult(f, In)
              base == MoveStep(w, h)
              new == IF Out = "void"
                     THEN TerminalStep(w.handles[h].step, f, In, k)
                     ELSE TransformStep(w.handles[h].step, f, In, Out, k)
              r == [steps |-> Append(base.steps, new),
                    handles |-> Append(base.handles, StepHandle(Len(base.steps) + 1)),
                    log |-> base.log, err |-> "none"]
          IN /\ w.handles[h].type = "step"
             /\ w.handles[h].step # Null
             /\ Out # "invalid"
             /\ InBounds(r.steps, Len(r.steps))
             /\ Commit(ch[1], h, r, TRUE)

NewStepOver == \E ch \in Handles : NewStepOverOn(ch)

\* the caller builds chains from step objects and calls execute() on them
AssembledNext == NewInitialStep \/ NewStepOver \/ Execute

AssembledSpec == Init /\ [][AssembledNext]_vars

\* ------------------------------------------------------------------ C13
\* the step s is the InitialStep<In> or a ResultHolder<In>
Provides(s, In) ==
    \/ s.kind = "Initial" /\ s.value.t = In
    \/ s.kind = "Transform" /\ s.outT = In

\* C13: type-recovery failure.  A transform or terminal step with input
\* type In over a predecessor that is neither the InitialStep<In> nor a
\* ResultHolder<In> never runs: its flag is unset, its slot empty, its
\* function never invoked.  execute() on it throws; once the predecessor's
\* own execute() has returned, what it throws is "Cannot get value from
\* previous step", and nothing but the predecessor's execution has happened;
\* execute() on a handle that owns the step throws too and leaves the step
\* and all steps after it as they were.  Over an InitialStep<In> the input is
\* the seed's value, taken by the first cast although the seed has no
\* result slot.
C13_TypeRecovery ==
    \A c \in DOMAIN chains :
        LET w == chains[c] IN
        \A i \in DOMAIN w.steps :
            LET s == w.steps[i]
                p == s.previous
                st == [steps |-> w.steps, log |-> w.log, err |-> "none",
                       asked |-> <<>>]
            IN (s.kind \in {"Transform", "Terminal"} /\ p # Null) =>
               /\ ~Provides(w.steps[p], s.inT) =>
                      LET before == StepExecute(st, p, "crash")
                          r == StepExecute(st, i, "crash")
                      IN /\ ~s.executed /\ ~s.has_result /\ Calls(w, i) = 0
                         /\ r.err # "none"
                         /\ r.steps[i] = s
                         /\ Calls(r, i) = 0
                         /\ r.steps = before.steps /\ r.log = before.log
                         /\ r.err = (IF before.err = "none" THEN TypeRecoveryFailure
                                     ELSE before.err)
                         /\ \A h \in Live(w) :
                                i \in ChainOf(w.steps, Tip(w, h)) =>
                                    LET e == PipelineExecute(w, h, "crash") IN
                                    /\ e.err # "none"
                                    /\ \A j \in ChainOf(w.steps, Tip(w, h)) :
                                           j >= i =>
                                               /\ e.steps[j] = w.steps[j]
                                               /\ Calls(e, j) = Calls(w, j)
               /\ (w.steps[p].kind = "Initial" /\ w.steps[p].value.t = s.inT) =>
                      /\ ~w.steps[p].has_result
                      /\ RecoverInput(w.steps, p, s.inT)
                             = [err |-> "none", val |-> w.steps[p].value]

\* a TransformStep over a TerminalStep: execute() ran the terminal step and
\* then threw the type-recovery error
C13_Witness ==
    /\ thrown = TypeRecoveryFailure
    /\ \E c \in DOMAIN chains :
           LET w == chains[c] IN
           /\ Len(w.steps) = 3
           /\ w.steps[2].kind = "Terminal" /\ w.steps[2].executed
           /\ w.steps[3].kind = "Transform" /\ ~w.steps[3].executed
           /\ ~w.steps[3].has_result
           /\ Calls(w, 3) = 0
           /\ Live(w) = {3}

\* ------------------------------------------------------------------ C14
\* the call execute() on step i of arena w, made on its own
ExecuteStep(w, i) ==
    StepExecute([steps |-> w.steps, log |-> w.log, err |-> "none", asked |-> <<>>],
                i, "crash")

\* the steps of arena w that have a predecessor
Successors(w) ==
    {i \in DOMAIN w.steps : w.steps[i].kind # "Initial" /\ w.steps[i].previous # Null}

\* C14 as claimed: every call of execute() on a transform, terminal or
\* sequential step calls execute() on its predecessor first, also when the
\* step has already run.
C14_AsksFirst ==
    \A c \in DOMAIN chains :
        LET w == chains[c] IN
        \A i \in Successors(w) :
            LET asked == ExecuteStep(w, i).asked IN
            /\ Len(asked) >= 2
            /\ asked[1] = i
            /\ asked[2] = w.steps[i].previous

\* C14, amended: execute() on a transform, terminal or sequential step
\* tests its own ran flag first.  With the flag unset it calls execute() on
\* its predecessor, and its own function is invoked after that call has
\* returned; with the flag set it returns at once: the predecessor is not
\* asked and nothing changes.  So one execute() asks the steps from the one
\* it is called on down to the first step that has run (or the seed), each
\* once, and no step below.
C14_Protocol ==
    \A c \in DOMAIN chains :
        LET w == chains[c] IN
        \A i \in Successors(w) :
            LET r == ExecuteStep(w, i)
                asked == r.asked
            IN /\ asked[1] = i
               /\ w.steps[i].executed =>
                      /\ asked = <<i>>
                      /\ r.steps = w.steps /\ r.log = w.log /\ r.err = "none"
               /\ ~w.steps[i].executed =>
                      /\ Len(asked) >= 2
                      /\ asked[2] = w.steps[i].previous
                      /\ r.err = "none" =>
                             /\ r.steps[i].executed
                             /\ r.log[Len(r.log)].step = i
               /\ \A n \in DOMAIN asked :
                      LET s == w.steps[asked[n]] IN
                      IF s.kind # "Initial" /\ ~s.executed /\ s.previous # Null
                      THEN n < Len(asked) /\ asked[n + 1] = s.previous
                      ELSE n = Len(asked)

\* a chain seed -> transform -> terminal -> sequential in which the
\* transform step has run and the terminal step has not (its function
\* threw): execute() on the tip asks steps 4, 3 and 2 and not the seed, and
\* execute() on the transform step asks no other step
C14_Witness ==
    \E c \in DOMAIN chains :
        LET w == chains[c] IN
        /\ Rooted(w) /\ Len(w.steps) = 4 /\ Live(w) = {4}
        /\ w.steps[2].executed /\ ~w.steps[3].executed
        /\ ExecuteStep(w, 4).asked = <<4, 3, 2>>
        /\ ExecuteStep(w, 2).asked = <<2>>

\* ------------------------------------------------------------------ C15
\* in a step of the system, an operator| on the immediate handle ch threw
\* the exception of the new step's function
ThenThrows(ch) ==
    /\ chains[ch[1]].handles[ch[2]].immediate_execution
    /\ chains[ch[1]].handles[ch[2]].step # Null
    /\ ThenTypedOn(ch) \/ ThenVoidOn(ch)
    /\ thrown' = "func"

\* the steps the handle owned before the call are alive after it, with the
\* flags and results they had, and a handle of the caller owns them
C15_Kept ==
    \A ch \in Handles :
        ThenThrows(ch) =>
            LET w == chains[ch[1]]
                v == chains'[ch[1]]
            IN \A i \in ChainOf(w.steps, Tip(w, ch[2])) :
                   /\ v.steps[i].alive
                   /\ v.steps[i].executed = w.steps[i].executed
                   /\ v.steps[i].has_result = w.steps[i].has_result
                   /\ v.steps[i].result = w.steps[i].result
                   /\ \E h \in Live(v) : i \in ChainOf(v.steps, Tip(v, h))

\* C15: failure during an immediate then().  When operator| on an immediate
\* handle throws because the new step's function throws during the
\* synchronous execution, the steps that had run keep their ran flags and
\* results and are still owned by a handle the caller holds.
C15_ImmediateFailure == [][C15_Kept]_vars

\* ------------------------------------------------------------------ C16
\* the arenas that do not begin with an InitialStep
NumOrphans ==
    Cardinality({c \in DOMAIN chains : chains[c].steps[1].kind # "Initial"})

\* auto q = p | f;  on a handle p = ch whose step was moved out of it: the
\* new step is built over a null pointer and begins an arena of its own
ReuseOn(ch) ==
    /\ ~crashed
    /\ NumSteps < MaxSteps
    /\ NumOrphans < MaxOrphans
    /\ chains[ch[1]].handles[ch[2]].step = Null
    /\ \E f \in UnaryFns \cup ZeroArgFns, k \in FailChoices, ub \in UBOutcomes :
          LET w == chains[ch[1]]
              r == Pipe(w, ch[2], f, k, ub)
          IN /\ f \in Accepted(w, ch[2])
             /\ chains' = Append(chains, Arena(r))
             /\ crashed' = (r.err = "crash")
             /\ thrown' = r.err
             /\ UNCHANGED <<reserver, masks>>

Reuse == \E ch \in Handles : ReuseOn(ch)

\* the operations of Spec, an operator| on a consumed handle always possible
ReuseNext == Next \/ Reuse

ReuseSpec == Init /\ [][ReuseNext]_vars

\* C16: chain shape.  After any sequence of make_pipeline and operator|
\* calls, the steps a handle that owns a step owns form one linear chain
\* from its tip back to exactly one seed at the root: every other step has
\* exactly one predecessor, the seed has none, no step is the predecessor
\* of two steps, and a sequential step comes only after a terminal or a
\* sequential step.
C16_Shape ==
    \A c \in DOMAIN chains :
        LET w == chains[c] IN
        \A h \in Live(w) :
            LET chain == ChainOf(w.steps, Tip(w, h)) IN
            /\ Cardinality({i \in chain : w.steps[i].kind = "Initial"}) = 1
            /\ \A i \in chain :
                   /\ w.steps[i].alive
                   /\ w.steps[i].kind = "Initial" => w.steps[i].previous = Null
                   /\ w.steps[i].kind # "Initial" =>
                          /\ w.steps[i].previous # Null
                          /\ w.steps[i].previous < i
                   /\ w.steps[i].kind = "Sequential" =>
                          /\ w.steps[i].previous # Null
                          /\ w.steps[w.steps[i].previous].kind
                                 \in {"Terminal", "Sequential"}
                   /\ \A j \in chain :
                          (j # i /\ w.steps[i].previous # Null) =>
                              w.steps[j].previous # w.steps[i].previous

\* ------------------------------------------------------------------ C17
\* C17: ran-flag closure.  If the ran flag of a step is set, the ran flag
\* of every step it owns is set and every transform step it owns has its
\* result slot populated; no call has thrown "Result not set", and neither
\* execute() nor operator| (with a function that throws or does not) on any
\* handle that owns a step throws it.
C17_Closure ==
    /\ thrown # ResultNotAvailable
    /\ \A c \in DOMAIN chains :
           LET w == chains[c] IN
           /\ \A i \in DOMAIN w.steps :
                  w.steps[i].executed =>
                      \A j \in ChainOf(w.steps, i) :
                          /\ w.steps[j].executed
                          /\ w.steps[j].kind = "Transform" => w.steps[j].has_result
           /\ \A h \in Live(w) :
                  /\ PipelineExecute(w, h, "crash").err # ResultNotAvailable
                  /\ \A f \in Accepted(w, h), k \in 0..1 :
                         Pipe(w, h, f, k, "crash").err # ResultNotAvailable

\* a chain seed -> transform -> transform -> step in which the execute()
\* stopped at the last step (its function threw): the two transform steps
\* ran, the second on the result read from the first one's slot
C17_Witness ==
    /\ thrown = "func"
    /\ \E c \in DOMAIN chains :
           LET w == chains[c] IN
           /\ Rooted(w) /\ Deferred(w) /\ Len(w.steps) = 4
           /\ w.steps[2].kind = "Transform" /\ w.steps[3].kind = "Transform"
           /\ \A i \in 1..3 : w.steps[i].executed
           /\ w.steps[2].has_result /\ w.steps[3].has_result
           /\ w.log[2].arg = w.steps[2].result
           /\ ~w.steps[4].executed

\* ------------------------------------------------------------------ C18
\* the last invocation in the arena threw: its execute() was aborted
Aborted(w) == w.log # <<>> /\ ~w.log[Len(w.log)].ok

\* C18: retry after failure.  In a deferred chain begun by make_pipeline
\* whose last execute() was aborted by the function of step k: step k has
\* neither ran flag nor result, the steps before it have run; the next
\* execute() on the handle invokes first the function of step k, with the
\* argument of the failed call, invokes no function of a step before k and
\* leaves those steps as they are; if the function of step k now returns,
\* step k has run and, no later function throwing, every step after k is
\* invoked once and the call returns; if it throws again the call aborts
\* at step k again.
C18_Retry ==
    \A c \in DOMAIN chains :
        LET w == chains[c] IN
        (Rooted(w) /\ Deferred(w) /\ Aborted(w)) =>
            LET n == Len(w.log)
                k == w.log[n].step
            IN /\ ~w.steps[k].executed /\ ~w.steps[k].has_result
               /\ \A i \in 1..(k - 1) : w.steps[i].executed
               /\ \A h \in Live(w) :
                      LET r == PipelineExecute(w, h, "crash")
                          tip == Tip(w, h)
                      IN /\ tip >= k
                         /\ Len(r.log) > n
                         /\ r.log[n + 1].step = k
                         /\ r.log[n + 1].arg = w.log[n].arg
                         /\ \A m \in (n + 1)..Len(r.log) : r.log[m].step >= k
                         /\ \A i \in 1..(k - 1) : r.steps[i] = w.steps[i]
                         /\ w.steps[k].fails > 0 =>
                                /\ r.err = "func"
                                /\ Len(r.log) = n + 1 /\ ~r.log[n + 1].ok
                                /\ ~r.steps[k].executed
                         /\ w.steps[k].fails = 0 =>
                                /\ r.log[n + 1].ok
                                /\ r.steps[k].executed
                                /\ (\A i \in (k + 1)..tip : w.steps[i].fails = 0) =>
                                       /\ r.err = "none"
                                       /\ Len(r.log) = n + 1 + (tip - k)
                                       /\ \A i \in (k + 1)..tip :
                                              /\ r.steps[i].executed
                                              /\ r.log[n + 1 + (i - k)].step = i

\* a chain of four steps executed twice: the first execute() was aborted by
\* the function of step 3, the second invoked it again and went on to step
\* 4; step 2 was invoked once
C18_Witness ==
    \E c \in DOMAIN chains :
        LET w == chains[c] IN
        /\ Rooted(w) /\ Deferred(w) /\ Len(w.steps) = 4
        /\ \A i \in 1..4 : w.steps[i].executed
        /\ Len(w.log) = 4
        /\ w.log[1].step = 2 /\ w.log[1].ok
        /\ w.log[2].step = 3 /\ ~w.log[2].ok
        /\ w.log[3].step = 3 /\ w.log[3].ok
        /\ w.log[4].step = 4 /\ w.log[4].ok

\* ------------------------------------------------------------------ C19
\* the indices of the slots in which an object lives
Occupied == {i \in Indices : slots[i].occupied}

\* the entries of the free stack below free_top
FreeEntries == {free_stack[j] : j \in 0..(free_top - 1)}

\* C19: pool accounting.  After any sequence of create and delete_ calls,
\* those rejected with an error and those whose element constructor throws
\* included, count() is the number of occupied slots, it lies in 0..N, and
\* the first free_top entries of free_stack are the indices of the
\* unoccupied slots, each once.
C19_Accounting ==
    /\ count(Pool) = Cardinality(Occupied)
    /\ 0 <= count(Pool) /\ count(Pool) <= N
    /\ FreeEntries = Indices \ Occupied
    /\ Cardinality(FreeEntries) = free_top

\* ------------------------------------------------------------------ C20
\* what the calls that must be rejected do to the pool as it is
C20_Rejected ==
    LET p == Pool IN
    /\ Cardinality(Occupied) = N =>
           \A v \in ObjValues, ctor_throws \in BOOLEAN :
               LET r == create(p, v, ctor_throws) IN
               r.err = "NotEnoughSlotsError" /\ r.p = p /\ count(r.p) = count(p)
    /\ \A index \in 0..(N + 1) :
           (IF index >= N THEN TRUE ELSE ~slots[index].occupied) =>
               /\ delete_(p, index).err = "EmptySlotError"
               /\ delete_(p, index).p = p
               /\ get(p, index).err = "EmptySlotError"
               /\ get(p, index).p = p
    /\ \A index \in Occupied :
           LET d == delete_(p, index) IN
           /\ d.err = "none"
           /\ delete_(d.p, index).err = "EmptySlotError"
           /\ delete_(d.p, index).p = d.p
           /\ get(d.p, index).err = "EmptySlotError"

\* a call that threw one of the two errors of the pool changed nothing
C20_Unchanged ==
    thrown' \in {"NotEnoughSlotsError", "EmptySlotError"} => UNCHANGED reserver

\* C20: pool errors leave the pool unchanged.  create on a pool that holds
\* N objects throws NotEnoughSlotsError; delete_ and get with an index >= N
\* or the index of an unoccupied slot, a second delete_ of the same index
\* included, throw EmptySlotError; in each case the occupied flags, the free
\* stack, free_top and count() are as before the call.
C20_PoolErrors == []C20_Rejected /\ [][C20_Unchanged]_vars

\* a full pool on which a further create was rejected
C20_Witness ==
    /\ thrown = "NotEnoughSlotsError"
    /\ Occupied = Indices
    /\ free_top = 0
    /\ count(Pool) = N

\* ---------------------------------------------------------------- C21
\* the positions, from 0, of a container of length n, in order
Positions(n) == [k \in 1..n |-> k - 1]

\* position i of the original container is one the mask m keeps
Masked(m, i) == m[(i % Len(m)) + 1] = 1

\* the elements of c at the positions the mask keeps, in their order
KeptElems(m, c) ==
    LET kept == SelectSeq(Positions(Len(c)), LAMBDA i : Masked(m, i))
    IN  [k \in 1..Len(kept) |-> c[kept[k] + 1]]

\* f applied to every element of s
MapElems(f, s) == [k \in 1..Len(s) |-> invoke(f, s[k])]

\* C21: mask filter.  With a mask of length N >= 1: slice leaves in the
\* container exactly the elements whose position i in the original container
\* (from 0, removed elements counted) has mask[i mod N] = 1, in their original
\* order; slice_and_transform(c, f) returns f applied to every element that
\* slice keeps on a copy of c; transform(c, f) returns a container as long as
\* c in which exactly the positions with mask[i mod N] = 1 hold f of the
\* element and the others hold the element.  None of the three calls throws.
C21_MaskFilter ==
    (data_ # <<>> /\ mask_call.op # "none") =>
        LET c == mask_call.arg
            f == mask_call.f
        IN  /\ thrown = "none"
            /\ mask_call.op = "slice" => container = KeptElems(data_, c)
            /\ mask_call.op = "slice_and_transform" =>
                   /\ result = MapElems(f, slice(data_, c).c)
                   /\ result = MapElems(f, KeptElems(data_, c))
            /\ mask_call.op = "transform" =>
                   /\ Len(result) = Len(c)
                   /\ \A i \in 0..(Len(c) - 1) :
                          result[i + 1] = IF Masked(data_, i)
                                          THEN invoke(f, c[i + 1])
                                          ELSE c[i + 1]

\* the mask 1 0 1 sliced the container 1 2 2 1: positions 0, 2 and 3 (3 mod
\* 3 = 0) are kept, position 1 is removed
C21_Witness ==
    /\ mask_call.op = "slice"
    /\ data_ = <<1, 0, 1>>
    /\ mask_call.arg = <<1, 2, 2, 1>>
    /\ container = <<1, 2, 1>>
    /\ thrown = "none"

====
